---- MODULE Spec2Model ----
(***************************************************************************)
(* q-block-master: an 8x8 block-placement puzzle.  The React host          *)
(* (src/App.tsx) keeps the session state and calls the puzzle engine       *)
(* (canPlacePiece, placePiece, checkLines, checkGameOver, rotateMatrix,    *)
(* calculateScore), which it imports from ./services/gameLogic.  That file *)
(* is not among the sources; the engine operators below follow section 4   *)
(* of the specification and are marked as such where they are defined.     *)
(*                                                                         *)
(* Two specifications share the variables:                                 *)
(*   Spec      the session: one action per handler of App.tsx;             *)
(*   SpecPure  the engine functions applied to inputs drawn from bounded   *)
(*             sets (the variable probe holds the call and its result).    *)
(***************************************************************************)
EXTENDS Integers, Sequences, FiniteSets

(***************************************************************************)
(* Program constants                                                       *)
(***************************************************************************)
GRID_SIZE == 8

COST_ROTATE == 2

\* keys granted by startGame
START_KEYS == 3

\* CellColor = string | null: the empty cell
NULL == "null"

\* sourceIndex: number | 'hold'
HOLD == -1

\* selectedPieceIndex: number | null
NO_SELECTION == -2

SHAPE_TEMPLATES ==
  << << <<1>> >>,
     << <<1, 1>> >>,
     << <<1>>, <<1>> >>,
     << <<1, 1, 1>> >>,
     << <<1>>, <<1>>, <<1>> >>,
     << <<1, 1, 1, 1>> >>,
     << <<1>>, <<1>>, <<1>>, <<1>> >>,
     << <<1, 1>>, <<1, 1>> >>,
     << <<1, 1, 1>>, <<1, 1, 1>>, <<1, 1, 1>> >>,
     << <<1, 0>>, <<1, 0>>, <<1, 1>> >>,
     << <<0, 1>>, <<0, 1>>, <<1, 1>> >>,
     << <<1, 1, 1>>, <<1, 0, 0>> >>,
     << <<1, 1, 1>>, <<0, 1, 0>> >>,
     << <<0, 1, 0>>, <<1, 1, 1>> >>,
     << <<1, 1, 0>>, <<0, 1, 1>> >>,
     << <<0, 1, 1>>, <<1, 1, 0>> >> >>

COLORS == << "#06b6d4", "#8b5cf6", "#f43f5e", "#10b981", "#f59e0b" >>

(***************************************************************************)
(* Bounds of the model                                                     *)
(***************************************************************************)
\* probe origins range over -OriginSlack .. GRID_SIZE - 1 + OriginSlack
OriginSlack == 2

\* rotateMatrix is probed on every binary matrix of at most MaxDim x MaxDim
MaxDim == 2

(***************************************************************************)
(* Values                                                                  *)
(***************************************************************************)
Idx == 0 .. (GRID_SIZE - 1)

AllCells == Idx \X Idx

\* grid[y][x], as in the JSX: color={grid[y][x]}
createEmptyGrid == [y \in Idx |-> [x \in Idx |-> NULL]]

\* Shape { id, matrix, color }; holdPiece: Shape | null.  The id is a random
\* string read only as a React key, and is left out
NoShape == [matrix |-> << >>, color |-> NULL]

Rows(matrix) == Len(matrix)

Cols(matrix) == IF Len(matrix) = 0 THEN 0 ELSE Len(matrix[1])

\* the filled cells <<dx, dy>> of an occupancy matrix, 0-based
FilledCells(matrix) ==
  { c \in (0 .. (Cols(matrix) - 1)) \X (0 .. (Rows(matrix) - 1)) :
      matrix[c[2] + 1][c[1] + 1] = 1 }

\* piece.matrix.flat().reduce((acc, v) => acc + v, 0)
RECURSIVE SumFrom(_, _)
SumFrom(matrix, k) ==
  IF k >= Rows(matrix) * Cols(matrix) THEN 0
  ELSE matrix[(k \div Cols(matrix)) + 1][(k % Cols(matrix)) + 1]
       + SumFrom(matrix, k + 1)

blockCount(matrix) == SumFrom(matrix, 0)

(***************************************************************************)
(* The engine (./services/gameLogic, modelled from the specification)      *)
(***************************************************************************)
\* 4.1 canPlace: scan the matrix row by row, false at the first filled cell
\* that maps outside the grid or onto an occupied cell
RECURSIVE canPlaceScan(_, _, _, _, _)
canPlaceScan(g, matrix, x, y, k) ==
  IF k >= Rows(matrix) * Cols(matrix) THEN TRUE
  ELSE LET dy == k \div Cols(matrix)
           dx == k % Cols(matrix)
           gx == x + dx
           gy == y + dy
       IN  IF /\ matrix[dy + 1][dx + 1] = 1
              /\ (gx < 0 \/ gx >= GRID_SIZE \/ gy < 0 \/ gy >= GRID_SIZE
                  \/ g[gy][gx] # NULL)
           THEN FALSE
           ELSE canPlaceScan(g, matrix, x, y, k + 1)

\* variant without the bounds test: cells outside the board are ignored
canPlacePieceNoBounds(g, piece, x, y) ==
  \A c \in FilledCells(piece.matrix) :
     LET gx == x + c[1]
         gy == y + c[2]
     IN  (gx \in Idx /\ gy \in Idx) => g[gy][gx] = NULL

canPlacePiece(g, piece, x, y) == canPlaceScan(g, piece.matrix, x, y, 0)

\* 4.1 applyPlacement: copy the grid, then write the colour cell by cell
RECURSIVE placeScan(_, _, _, _, _)
placeScan(g, piece, x, y, k) ==
  IF k >= Rows(piece.matrix) * Cols(piece.matrix) THEN g
  ELSE LET dy == k \div Cols(piece.matrix)
           dx == k % Cols(piece.matrix)
           gx == x + dx
           gy == y + dy
           g2 == IF /\ piece.matrix[dy + 1][dx + 1] = 1
                    /\ gx \in Idx /\ gy \in Idx
                 THEN [g EXCEPT ![gy][gx] = piece.color]
                 ELSE g
       IN  placeScan(g2, piece, x, y, k + 1)

\* variant that writes the top-left cell of the matrix only
placePieceFirstCellOnly(g, piece, x, y) ==
  IF piece.matrix[1][1] = 1 /\ x \in Idx /\ y \in Idx
  THEN [g EXCEPT ![y][x] = piece.color]
  ELSE g

placePiece(g, piece, x, y) == placeScan(g, piece, x, y, 0)

\* 4.1 clearCompletedLines: both lists are taken from the grid as given,
\* then every listed row and column is emptied
rowsToClear(g) == { y \in Idx : \A x \in Idx : g[y][x] # NULL }

colsToClear(g) == { x \in Idx : \A y \in Idx : g[y][x] # NULL }

clearRows(g, rows) ==
  [y \in Idx |-> [x \in Idx |-> IF y \in rows THEN NULL ELSE g[y][x]]]

clearCols(g, cols) ==
  [y \in Idx |-> [x \in Idx |-> IF x \in cols THEN NULL ELSE g[y][x]]]

\* variant that counts the complete lines and empties none
checkLinesCountOnly(g) ==
  [newGrid |-> g,
   linesCleared |-> Cardinality(rowsToClear(g)) + Cardinality(colsToClear(g))]

\* variant that looks for the columns after the rows were emptied
checkLinesRowsFirst(g) ==
  LET afterRows == clearRows(g, rowsToClear(g))
      cols == colsToClear(afterRows)
  IN  [newGrid |-> clearCols(afterRows, cols),
       linesCleared |-> Cardinality(rowsToClear(g)) + Cardinality(cols)]

checkLines(g) ==
  LET rows == rowsToClear(g)
      cols == colsToClear(g)
  IN  [newGrid |-> clearCols(clearRows(g, rows), cols),
       linesCleared |-> Cardinality(rows) + Cardinality(cols)]

\* variant that transposes instead of turning
rotateMatrixTranspose(matrix) ==
  [i \in 1 .. Cols(matrix) |-> [j \in 1 .. Rows(matrix) |-> matrix[j][i]]]

\* 4.2 rotate, a quarter turn clockwise: row i of the result is column i of
\* the input read bottom-up
rotateMatrix(matrix) ==
  [i \in 1 .. Cols(matrix) |->
     [j \in 1 .. Rows(matrix) |-> matrix[Rows(matrix) + 1 - j][i]]]

\* the matrix after n quarter turns
RECURSIVE rotateTimes(_, _)
rotateTimes(matrix, n) ==
  IF n = 0 THEN matrix ELSE rotateTimes(rotateMatrix(matrix), n - 1)

\* 4.4 candidates = pool shapes, and the hold piece when present
candidates(pieces, hold) ==
  IF hold = NoShape THEN pieces ELSE Append(pieces, hold)

\* some origin of the grid takes the matrix
fitsSomewhere(g, matrix) ==
  \E y \in Idx : \E x \in Idx : canPlaceScan(g, matrix, x, y, 0)

\* variant that tries each candidate as it lies only
checkGameOverNoRotation(g, pieces, hold) ==
  LET cs == candidates(pieces, hold)
  IN  \A i \in 1 .. Len(cs) : ~ fitsSomewhere(g, cs[i].matrix)

\* 4.4 isGameOver: no candidate fits in any of its four rotations
checkGameOver(g, pieces, hold) ==
  LET cs == candidates(pieces, hold)
  IN  \A i \in 1 .. Len(cs) :
        \A n \in 0 .. 3 : ~ fitsSomewhere(g, rotateTimes(cs[i].matrix, n))

\* 4.3 lineClearScore = base(linesCleared) * combo, base a non-decreasing
\* step function (the reward table itself is not fixed by the specification)
lineBase(linesCleared) == 100 * linesCleared

calculateScore(linesCleared, c) ==
  IF linesCleared = 0 THEN 0 ELSE lineBase(linesCleared) * c

(***************************************************************************)
(* Bounds of the session                                                   *)
(***************************************************************************)
\* accepted placements explored in the runs that go deep
DeepTurns == 4

\* accepted placements explored in the other runs
ShortTurns == 2

\* accepted placements explored in the runs that restart after a game over:
\* two that end the first game and one in the second
RestartTurns == 3

\* hold drops and hold-button presses explored in the runs that use the hold slot
MaxHolds == 1

\* hold drops and hold-button presses explored in the runs that swap
SwapHolds == 2

\* placements explored in the runs that swap
SwapTurns == 0

\* the high score a previous session left in localStorage
StoredHighScore == 50

\* The explored runs.  tape: the outcomes of the Math.random() template draws
\* of the successive spawnPieces calls, three indices into SHAPE_TEMPLATES per
\* call (5 line of four, 7 square 2x2, 8 square 3x3); turns, holds: how many
\* placements and hold moves are followed; stored: the high score found in
\* localStorage when App is mounted (0: none).
Plans ==
  { [tape |-> << <<8, 8, 7>>, <<8, 8, 7>> >>, turns |-> DeepTurns, holds |-> 0,
     stored |-> 0],
    [tape |-> << <<5, 5, 8>> >>, turns |-> ShortTurns, holds |-> MaxHolds,
     stored |-> 0],
    [tape |-> << <<5, 5, 8>>, <<8, 8, 8>> >>, turns |-> RestartTurns, holds |-> 0,
     stored |-> StoredHighScore],
    [tape |-> << <<5, 5, 8>> >>, turns |-> SwapTurns, holds |-> SwapHolds,
     stored |-> 0] }

\* the colour Math.random() selects in the explored runs (index into COLORS)
DrawColor == 0

\* the grid cells <<gx, gy>> a pointermove over the board resolves to
PointerCells ==
  { <<2, 2>>, <<5, 2>>, <<0, 2>>, <<0, 4>>, <<2, 5>>, <<-1, 2>>, <<8, 2>> }

(***************************************************************************)
(* Session state (the useState cells of App)                               *)
(***************************************************************************)
VARIABLES
  phase,               \* 'start' | 'playing' | 'gameover'
  grid,
  availablePieces,
  holdPiece,
  selectedPieceIndex,
  score,
  highScore,
  keys,
  combo,
  dragState,
  dropPreview,
  isHoveringHold,
  timers,              \* pending setTimeout callbacks of spawnPieces, oldest first
  eff,                 \* the render whose handlers the pointer effect has subscribed
  ev,                  \* the last handler that ran and what it decided
  budget,              \* what is left of the explored run
  probe                \* SpecPure: the engine call made last and its result

vars ==
  << phase, grid, availablePieces, holdPiece, selectedPieceIndex, score,
     highScore, keys, combo, dragState, dropPreview, isHoveringHold, timers,
     eff, ev, budget, probe >>

\* dragState: DragState | null (the pixel fields are not modelled)
NoDrag == [active |-> FALSE, piece |-> NoShape, sourceIndex |-> HOLD]

\* dropPreview: { x, y } | null
NoPreview == [set |-> FALSE, x |-> 0, y |-> 0]

NoEvent == [op |-> "none", ok |-> FALSE, lines |-> 0]

NoProbe == [fn |-> "none"]

generateRandomShape(t, c) ==
  [matrix |-> SHAPE_TEMPLATES[t + 1], color |-> COLORS[c + 1]]

\* availablePieces.filter((_, i) => i !== sourceIndex)
removeAt(pieces, i) ==
  IF i \in 0 .. (Len(pieces) - 1)
  THEN [k \in 1 .. (Len(pieces) - 1) |-> IF k <= i THEN pieces[k] ELSE pieces[k + 1]]
  ELSE pieces

\* newAvailable[sourceIndex] = currentHold; an index one past the end appends
setAt(pieces, i, piece) ==
  IF i = Len(pieces) THEN Append(pieces, piece)
  ELSE [pieces EXCEPT ![i + 1] = piece]

\* piece.matrix = rotateMatrix(piece.matrix) on the piece at index i
rotateAt(pieces, i) ==
  [k \in 1 .. Len(pieces) |->
     IF k = i + 1
     THEN [pieces[k] EXCEPT !.matrix = rotateMatrix(pieces[k].matrix)]
     ELSE pieces[k]]

\* the values of the render that follows the step
Rendered ==
  [availablePieces |-> availablePieces', holdPiece |-> holdPiece',
   combo |-> combo', highScore |-> highScore']

\* the state after App is mounted: the useState initial values, and the high
\* score the mount effect has read from localStorage.  The pointer effect was
\* subscribed by the first render, where highScore was still 0.
Constructed(stored) ==
  /\ phase = "start"
  /\ grid = createEmptyGrid
  /\ availablePieces = << >>
  /\ holdPiece = NoShape
  /\ selectedPieceIndex = NO_SELECTION
  /\ score = 0
  /\ highScore = stored
  /\ keys = 0
  /\ combo = 1
  /\ dragState = NoDrag
  /\ dropPreview = NoPreview
  /\ isHoveringHold = FALSE
  /\ timers = << >>
  /\ eff = [availablePieces |-> << >>, holdPiece |-> NoShape,
            combo |-> 1, highScore |-> 0]
  /\ ev = NoEvent

Init ==
  /\ budget \in Plans
  /\ Constructed(budget.stored)
  /\ probe = NoProbe

(***************************************************************************)
(* Handlers                                                                *)
(***************************************************************************)
\* spawnPieces, called from a render whose grid and holdPiece are cGrid, cHold;
\* b is the budget the calling step leaves
spawnPieces(cGrid, cHold, b) ==
  /\ b.tape # << >>
  /\ LET t == Head(b.tape)
         newPieces == << generateRandomShape(t[1], DrawColor),
                         generateRandomShape(t[2], DrawColor),
                         generateRandomShape(t[3], DrawColor) >>
     IN  /\ availablePieces' = newPieces
         /\ selectedPieceIndex' = NO_SELECTION
         /\ timers' = Append(timers, [grid |-> cGrid, pieces |-> newPieces,
                                      hold |-> cHold])
  /\ budget' = [b EXCEPT !.tape = Tail(@)]

\* the Start button of the start screen, Try Again of the game-over overlay
startGame ==
  /\ phase \in {"start", "gameover"}
  /\ grid' = createEmptyGrid
  /\ score' = 0
  /\ keys' = START_KEYS
  /\ combo' = 1
  /\ holdPiece' = NoShape
  /\ spawnPieces(grid, holdPiece, budget)
  /\ phase' = "playing"
  /\ UNCHANGED << highScore, dragState, dropPreview, isHoveringHold, probe >>
  /\ eff' = Rendered
  /\ ev' = [op |-> "start", ok |-> TRUE, lines |-> 0]

\* the Back to Menu button of the game-over overlay
backToMenu ==
  /\ phase = "gameover"
  /\ phase' = "start"
  /\ UNCHANGED << grid, availablePieces, holdPiece, selectedPieceIndex, score,
                  highScore, keys, combo, dragState, dropPreview,
                  isHoveringHold, timers, eff, budget, probe >>
  /\ ev' = [op |-> "menu", ok |-> TRUE, lines |-> 0]

\* the callback spawnPieces scheduled 100 ms earlier
timeoutFire ==
  /\ Len(timers) > 0
  /\ phase' = IF checkGameOver(timers[1].grid, timers[1].pieces, timers[1].hold)
              THEN "gameover" ELSE phase
  /\ timers' = Tail(timers)
  /\ UNCHANGED << grid, availablePieces, holdPiece, selectedPieceIndex, score,
                  highScore, keys, combo, dragState, dropPreview,
                  isHoveringHold, eff, budget, probe >>
  /\ ev' = [op |-> "timeout", ok |-> (phase' = "gameover"), lines |-> 0]

\* pointerdown on a pool piece (sourceIndex 0..) or on the hold piece
handleDragStart(sourceIndex) ==
  /\ phase = "playing"
  /\ IF sourceIndex = HOLD THEN holdPiece # NoShape
     ELSE sourceIndex \in 0 .. (Len(availablePieces) - 1)
  /\ dragState' =
       [active |-> TRUE,
        piece |-> IF sourceIndex = HOLD THEN holdPiece
                  ELSE availablePieces[sourceIndex + 1],
        sourceIndex |-> sourceIndex]
  /\ selectedPieceIndex' = IF sourceIndex = HOLD THEN NO_SELECTION ELSE sourceIndex
  /\ UNCHANGED << phase, grid, availablePieces, holdPiece, score, highScore,
                  keys, combo, dropPreview, isHoveringHold, timers, budget,
                  probe >>
  /\ eff' = Rendered
  /\ ev' = [op |-> "dragStart", ok |-> TRUE, lines |-> 0]

\* pointermove: over the board at cell <<gx, gy>>, over the hold slot, or elsewhere
handlePointerMove(area, gx, gy) ==
  /\ dragState.active
  /\ IF /\ area = "grid"
        /\ gx >= -2 /\ gx < GRID_SIZE /\ gy >= -2 /\ gy < GRID_SIZE
        /\ canPlacePiece(grid, dragState.piece, gx, gy)
     THEN /\ dropPreview' = [set |-> TRUE, x |-> gx, y |-> gy]
          /\ isHoveringHold' = FALSE
     ELSE IF area = "hold"
     THEN /\ isHoveringHold' = TRUE
          /\ dropPreview' = NoPreview
     ELSE /\ dropPreview' = NoPreview
          /\ isHoveringHold' = FALSE
  /\ UNCHANGED << phase, grid, availablePieces, holdPiece, selectedPieceIndex,
                  score, highScore, keys, combo, dragState, timers, budget,
                  probe >>
  /\ eff' = Rendered
  /\ ev' = [op |-> "move", ok |-> dropPreview'.set, lines |-> 0]

\* variant that grants one key per clearing turn
earnedKeysOne(linesCleared) == 1

\* const earnedKeys = linesCleared
earnedKeys(linesCleared) == linesCleared

\* variant that raises the combo by the number of lines
nextComboByLines(c, linesCleared) ==
  IF linesCleared > 0 THEN c + linesCleared ELSE 1

\* setCombo(c => c + 1) after a clear, setCombo(1) otherwise
nextCombo(c, linesCleared) ==
  IF linesCleared > 0 THEN c + 1 ELSE 1

\* variant that multiplies by the combo the turn leaves
turnPointsNextCombo(matrix, linesCleared, c) ==
  blockCount(matrix) * 10
    + (IF linesCleared > 0
       THEN calculateScore(linesCleared, nextCombo(c, linesCleared)) ELSE 0)

\* let turnPoints = blockCount * 10, plus calculateScore(linesCleared, combo)
\* after a clear
turnPoints(matrix, linesCleared, c) ==
  blockCount(matrix) * 10
    + (IF linesCleared > 0 THEN calculateScore(linesCleared, c) ELSE 0)

\* variant that records every new score
nextHighScoreAlways(newScore, seen, current) == newScore

\* if (newScore > highScore) setHighScore(newScore): seen is the highScore of
\* the render the handler was defined in, current the state cell
nextHighScore(newScore, seen, current) ==
  IF newScore > seen THEN newScore ELSE current

\* variant that asks for a new batch while one piece is left
poolExhaustedAtOne(filtered) == Len(filtered) <= 1

\* variant that never asks for a new batch
poolExhaustedNever(filtered) == FALSE

\* if (filtered.length === 0) spawnPieces()
poolExhausted(filtered) == Len(filtered) = 0

\* handlePlacePiece as defined in a render whose availablePieces, holdPiece,
\* combo and highScore are c.*; its grid is the current one (grid is a
\* dependency of the pointer effect); b is the budget the step leaves
handlePlacePiece(c, piece, x, y, sourceIndex, b) ==
  LET nextGrid == placePiece(grid, piece, x, y)
      cleared  == checkLines(nextGrid)
      lines    == cleared.linesCleared
      points   == turnPoints(piece.matrix, lines, c.combo)
      newScore == score + points
      filtered == removeAt(c.availablePieces, sourceIndex)
  IN  /\ keys' = IF lines > 0 THEN keys + earnedKeys(lines) ELSE keys
      /\ combo' = nextCombo(combo, lines)
      /\ score' = newScore
      /\ highScore' = nextHighScore(newScore, c.highScore, highScore)
      /\ grid' = cleared.newGrid
      /\ IF sourceIndex = HOLD
         THEN /\ holdPiece' = NoShape
              /\ budget' = b
              /\ UNCHANGED << availablePieces, selectedPieceIndex, timers, phase >>
         ELSE /\ UNCHANGED holdPiece
              /\ IF poolExhausted(filtered)
                 THEN /\ spawnPieces(grid, c.holdPiece, b)
                      /\ UNCHANGED phase
                 ELSE /\ availablePieces' = filtered
                      /\ selectedPieceIndex' = NO_SELECTION
                      /\ phase' = IF checkGameOver(cleared.newGrid, filtered,
                                                   c.holdPiece)
                                  THEN "gameover" ELSE phase
                      /\ budget' = b
                      /\ UNCHANGED timers
      /\ ev' = [op |-> "place", ok |-> TRUE, lines |-> lines]

\* handleHoldDrop as defined in a render whose availablePieces and holdPiece
\* are c.*
handleHoldDrop(c, piece, sourceIndex, b) ==
  IF sourceIndex = HOLD
  THEN /\ UNCHANGED << holdPiece, availablePieces, selectedPieceIndex, timers,
                       budget >>
       /\ ev' = [op |-> "hold", ok |-> FALSE, lines |-> 0]
  ELSE /\ holdPiece' = piece
       /\ IF c.holdPiece # NoShape
          THEN /\ availablePieces' =
                    setAt(c.availablePieces, sourceIndex, c.holdPiece)
               /\ selectedPieceIndex' = NO_SELECTION
               /\ budget' = b
               /\ UNCHANGED timers
          ELSE IF poolExhausted(removeAt(c.availablePieces, sourceIndex))
          THEN spawnPieces(grid, c.holdPiece, b)
          ELSE /\ availablePieces' = removeAt(c.availablePieces, sourceIndex)
               /\ selectedPieceIndex' = NO_SELECTION
               /\ budget' = b
               /\ UNCHANGED timers
       /\ ev' = [op |-> "hold", ok |-> TRUE, lines |-> 0]

\* pointerup: drop on the previewed cell, else on the hold slot, else nowhere.
\* The preview was validated for the piece dragged when the pointer last
\* moved; a pointerdown on another piece since then leaves it in place.  What
\* placePiece does with a piece that does not fit is not fixed: it may signal
\* a PlacementError, which ends the handler before any state is set, or write
\* the cells.
handlePointerUp ==
  /\ dragState.active
  /\ UNCHANGED probe
  /\ IF dropPreview.set
     THEN \/ /\ budget.turns > 0
             /\ handlePlacePiece(eff, dragState.piece, dropPreview.x,
                                 dropPreview.y, dragState.sourceIndex,
                                 [budget EXCEPT !.turns = @ - 1])
             /\ dragState' = NoDrag
             /\ dropPreview' = NoPreview
             /\ isHoveringHold' = FALSE
             /\ eff' = Rendered
          \/ /\ ~ canPlacePiece(grid, dragState.piece, dropPreview.x,
                                dropPreview.y)
             /\ ev' = [op |-> "place", ok |-> FALSE, lines |-> 0]
             /\ UNCHANGED << phase, grid, availablePieces, holdPiece,
                             selectedPieceIndex, score, highScore, keys, combo,
                             dragState, dropPreview, isHoveringHold, timers,
                             eff, budget >>
     ELSE /\ IF isHoveringHold
             THEN /\ dragState.sourceIndex # HOLD => budget.holds > 0
                  /\ handleHoldDrop(eff, dragState.piece, dragState.sourceIndex,
                                    [budget EXCEPT !.holds = @ - 1])
                  /\ UNCHANGED << phase, grid, score, highScore, keys, combo >>
             ELSE /\ UNCHANGED << phase, grid, availablePieces, holdPiece,
                                  selectedPieceIndex, score, highScore, keys,
                                  combo, timers, budget >>
                  /\ ev' = [op |-> "release", ok |-> FALSE, lines |-> 0]
          /\ dragState' = NoDrag
          /\ dropPreview' = NoPreview
          /\ isHoveringHold' = FALSE
          /\ eff' = Rendered

\* the hold slot clicked: handleHoldDrop of the latest render on the selected
\* piece
handleHoldButton ==
  /\ phase # "start"
  /\ IF selectedPieceIndex = NO_SELECTION
     THEN /\ UNCHANGED << holdPiece, availablePieces, selectedPieceIndex,
                          timers, budget >>
          /\ ev' = [op |-> "hold", ok |-> FALSE, lines |-> 0]
     ELSE /\ budget.holds > 0
          /\ handleHoldDrop([availablePieces |-> availablePieces,
                             holdPiece |-> holdPiece],
                            availablePieces[selectedPieceIndex + 1],
                            selectedPieceIndex,
                            [budget EXCEPT !.holds = @ - 1])
  /\ UNCHANGED << phase, grid, score, highScore, keys, combo, dragState,
                  dropPreview, isHoveringHold, eff, probe >>

\* variant of handleRotate without the test of keys
handleRotateNoKeyCheck ==
  /\ phase # "start"
  /\ IF selectedPieceIndex = NO_SELECTION
     THEN /\ UNCHANGED << availablePieces, keys, eff >>
          /\ ev' = [op |-> "rotate", ok |-> FALSE, lines |-> 0]
     ELSE /\ availablePieces' = rotateAt(availablePieces, selectedPieceIndex)
          /\ eff' = [eff EXCEPT !.availablePieces =
                                   rotateAt(eff.availablePieces, selectedPieceIndex)]
          /\ keys' = keys - COST_ROTATE
          /\ ev' = [op |-> "rotate", ok |-> TRUE, lines |-> 0]
  /\ UNCHANGED << phase, grid, holdPiece, selectedPieceIndex, score, highScore,
                  combo, dragState, dropPreview, isHoveringHold, timers, budget,
                  probe >>

\* the Flip button.  The rotated piece is written in place, so the array the
\* pointer effect still holds shows the new matrix too.  (A pending
\* spawnPieces callback may hold the object as well; checkGameOver tries all
\* four rotations, so its result does not depend on the quarter turn.)
\* The button is disabled while nothing is selected or the keys do not
\* suffice; the handler makes both tests itself.
handleRotate ==
  /\ phase # "start"
  /\ IF selectedPieceIndex = NO_SELECTION \/ keys < COST_ROTATE
     THEN /\ UNCHANGED << availablePieces, keys, eff >>
          /\ ev' = [op |-> "rotate", ok |-> FALSE, lines |-> 0]
     ELSE /\ availablePieces' = rotateAt(availablePieces, selectedPieceIndex)
          /\ eff' = [eff EXCEPT !.availablePieces =
                                   rotateAt(eff.availablePieces, selectedPieceIndex)]
          /\ keys' = keys - COST_ROTATE
          /\ ev' = [op |-> "rotate", ok |-> TRUE, lines |-> 0]
  /\ UNCHANGED << phase, grid, holdPiece, selectedPieceIndex, score, highScore,
                  combo, dragState, dropPreview, isHoveringHold, timers, budget,
                  probe >>

\* variant of handleRotateHold without the test of keys
handleRotateHoldNoKeyCheck ==
  /\ phase # "start"
  /\ holdPiece # NoShape
  /\ holdPiece' = [holdPiece EXCEPT !.matrix = rotateMatrix(holdPiece.matrix)]
  /\ keys' = keys - COST_ROTATE
  /\ ev' = [op |-> "rotateHold", ok |-> TRUE, lines |-> 0]
  /\ UNCHANGED << phase, grid, availablePieces, selectedPieceIndex, score,
                  highScore, combo, dragState, dropPreview, isHoveringHold,
                  timers, eff, budget, probe >>

\* the mini rotate button on the hold slot (rendered only with a hold piece)
handleRotateHold ==
  /\ phase # "start"
  /\ holdPiece # NoShape
  /\ IF keys < COST_ROTATE
     THEN /\ UNCHANGED << holdPiece, keys >>
          /\ ev' = [op |-> "rotateHold", ok |-> FALSE, lines |-> 0]
     ELSE /\ holdPiece' = [holdPiece EXCEPT !.matrix = rotateMatrix(holdPiece.matrix)]
          /\ keys' = keys - COST_ROTATE
          /\ ev' = [op |-> "rotateHold", ok |-> TRUE, lines |-> 0]
  /\ UNCHANGED << phase, grid, availablePieces, selectedPieceIndex, score,
                  highScore, combo, dragState, dropPreview, isHoveringHold,
                  timers, eff, budget, probe >>

Next ==
  \/ startGame
  \/ backToMenu
  \/ timeoutFire
  \/ \E sourceIndex \in {HOLD, 0, 1, 2} : handleDragStart(sourceIndex)
  \/ \E cell \in PointerCells : handlePointerMove("grid", cell[1], cell[2])
  \/ handlePointerMove("hold", 0, 0)
  \/ handlePointerMove("none", 0, 0)
  \/ handlePointerUp
  \/ handleHoldButton
  \/ handleRotate
  \/ handleRotateHold

Spec == Init /\ [][Next]_vars

(***************************************************************************)
(* SpecPure: the engine functions on inputs drawn from bounded sets; each   *)
(* run makes one call                                                      *)
(***************************************************************************)
Row(r) == { c \in AllCells : c[2] = r }

Col(x) == { c \in AllCells : c[1] = x }

\* the occupied cells of the grids the engine is applied to
ProbeFills ==
  { {}, AllCells, AllCells \ { <<3, 4>> }, AllCells \ { <<0, 0>> },
    Row(2), Col(5), Row(2) \cup Col(5),
    Row(0) \cup Row(7) \cup Col(0) \cup { <<3, 4>> },
    Row(2) \ { <<7, 2>> },
    AllCells \ { <<0, 0>>, <<1, 0>>, <<2, 0>>, <<3, 0>> },
    AllCells \ { <<6, 6>>, <<7, 6>>, <<6, 7>>, <<7, 7>> },
    { c \in AllCells : c[1] < 4 } }

GridOf(fill) ==
  [y \in Idx |-> [x \in Idx |-> IF <<x, y>> \in fill THEN COLORS[2] ELSE NULL]]

ProbeGrids == { GridOf(fill) : fill \in ProbeFills }

\* every binary matrix of at most MaxDim rows and MaxDim columns
BinaryMatrices ==
  UNION { [1 .. r -> [1 .. c -> {0, 1}]] : r \in 1 .. MaxDim, c \in 1 .. MaxDim }

ProbeMatrices ==
  { SHAPE_TEMPLATES[t] : t \in 1 .. Len(SHAPE_TEMPLATES) } \cup BinaryMatrices

ProbeOrigins == (0 - OriginSlack) .. (GRID_SIZE - 1 + OriginSlack)

ShapeOf(matrix) == [matrix |-> matrix, color |-> COLORS[1]]

\* candidates of the game-over probes: single cell, vertical line of four,
\* square 2x2, T piece
ProbeCandidates ==
  { ShapeOf(SHAPE_TEMPLATES[t]) : t \in {1, 7, 8, 13} }

ProbePools ==
  { <<a>> : a \in ProbeCandidates }
    \cup { <<a, b>> : a \in ProbeCandidates, b \in ProbeCandidates }

ProbeHolds == { NoShape, ShapeOf(SHAPE_TEMPLATES[1]), ShapeOf(SHAPE_TEMPLATES[7]) }

NoBudget == [tape |-> << >>, turns |-> 0, holds |-> 0, stored |-> 0]

sessionVars ==
  << phase, grid, availablePieces, holdPiece, selectedPieceIndex, score,
     highScore, keys, combo, dragState, dropPreview, isHoveringHold, timers,
     eff, ev, budget >>

InitPure ==
  /\ Constructed(0)
  /\ budget = NoBudget
  /\ probe = NoProbe

ProbeCanPlace ==
  /\ probe = NoProbe
  /\ \E g \in ProbeGrids, m \in ProbeMatrices, x \in ProbeOrigins, y \in ProbeOrigins :
       /\ probe' = [fn |-> "canPlacePiece", grid |-> g, piece |-> ShapeOf(m),
                    x |-> x, y |-> y,
                    result |-> canPlacePiece(g, ShapeOf(m), x, y)]
       /\ UNCHANGED sessionVars

\* placePiece is applied where canPlacePiece has accepted the arguments
ProbePlace ==
  /\ probe = NoProbe
  /\ \E g \in ProbeGrids, m \in ProbeMatrices, x \in ProbeOrigins, y \in ProbeOrigins :
       /\ canPlacePiece(g, ShapeOf(m), x, y)
       /\ probe' = [fn |-> "placePiece", grid |-> g, piece |-> ShapeOf(m),
                    x |-> x, y |-> y,
                    result |-> placePiece(g, ShapeOf(m), x, y)]
       /\ UNCHANGED sessionVars

ProbeCheckLines ==
  /\ probe = NoProbe
  /\ \E g \in ProbeGrids :
       /\ probe' = [fn |-> "checkLines", grid |-> g, result |-> checkLines(g)]
       /\ UNCHANGED sessionVars

ProbeRotate ==
  /\ probe = NoProbe
  /\ \E m \in ProbeMatrices :
       /\ probe' = [fn |-> "rotateMatrix", matrix |-> m,
                    result |-> rotateMatrix(m),
                    fourth |-> rotateTimes(m, 4)]
       /\ UNCHANGED sessionVars

ProbeGameOver ==
  /\ probe = NoProbe
  /\ \E g \in ProbeGrids, p \in ProbePools, h \in ProbeHolds :
       /\ probe' = [fn |-> "checkGameOver", grid |-> g, pieces |-> p, hold |-> h,
                    result |-> checkGameOver(g, p, h)]
       /\ UNCHANGED sessionVars

NextPure ==
  \/ ProbeCanPlace
  \/ ProbePlace
  \/ ProbeCheckLines
  \/ ProbeRotate
  \/ ProbeGameOver

SpecPure == InitPure /\ [][NextPure]_vars

(***************************************************************************)
(* Properties of the engine, stated for SpecPure                           *)
(***************************************************************************)
Occupied(g) == { c \in AllCells : g[c[2]][c[1]] # NULL }

\* the board cells the filled cells of a matrix map to from origin <<x, y>>,
\* inside the board or not
Mapped(matrix, x, y) ==
  { <<x + c[1], y + c[2]>> : c \in FilledCells(matrix) }

\* C1: canPlace is true exactly when every filled cell of the shape maps to
\* a cell inside the board that is empty, for origins inside and outside the
\* board alike; one mapped cell outside the board or occupied makes it false.
C1_CanPlaceIffAllCellsFree ==
  probe.fn = "canPlacePiece" =>
    (probe.result <=>
       \A c \in Mapped(probe.piece.matrix, probe.x, probe.y) :
          c \in AllCells /\ c \notin Occupied(probe.grid))

\* a shape with an empty first column accepted at a negative origin on a
\* board that is not empty
C1_Witness ==
  /\ probe.fn = "canPlacePiece"
  /\ probe.x < 0
  /\ probe.result
  /\ FilledCells(probe.piece.matrix) # {}
  /\ Occupied(probe.grid) # {}

\* C2: where canPlace holds, applyPlacement returns a grid in which exactly
\* the mapped cells hold the shape's colour and every other cell is as in the
\* input, so the filled cells number filled(G) + filledCellCount(S).
C2_PlacementWritesExactlyTheShape ==
  probe.fn = "placePiece" =>
    /\ \A c \in AllCells :
          probe.result[c[2]][c[1]] =
            IF c \in Mapped(probe.piece.matrix, probe.x, probe.y)
            THEN probe.piece.color
            ELSE probe.grid[c[2]][c[1]]
    /\ Cardinality(Occupied(probe.result)) =
         Cardinality(Occupied(probe.grid))
           + Cardinality(FilledCells(probe.piece.matrix))

\* a shape of several cells, not a full rectangle, placed on a board that
\* is not empty
C2_Witness ==
  /\ probe.fn = "placePiece"
  /\ Occupied(probe.grid) # {}
  /\ Cardinality(FilledCells(probe.piece.matrix)) >= 3
  /\ Cardinality(FilledCells(probe.piece.matrix))
       < Rows(probe.piece.matrix) * Cols(probe.piece.matrix)

CompleteRows(g) == { y \in Idx : Row(y) \subseteq Occupied(g) }

CompleteCols(g) == { x \in Idx : Col(x) \subseteq Occupied(g) }

\* C3: clearCompletedLines judges every row and column against the input
\* grid, empties exactly the cells of a complete row or column, leaves the
\* others as they were and returns the number of complete rows plus the
\* number of complete columns; with no complete line it returns 0 and the
\* input grid.
C3_ClearJudgesTheInputGrid ==
  probe.fn = "checkLines" =>
    LET rows == CompleteRows(probe.grid)
        cols == CompleteCols(probe.grid)
    IN  /\ probe.result.linesCleared = Cardinality(rows) + Cardinality(cols)
        /\ \A c \in AllCells :
              probe.result.newGrid[c[2]][c[1]] =
                IF c[2] \in rows \/ c[1] \in cols THEN NULL
                ELSE probe.grid[c[2]][c[1]]
        /\ (rows = {} /\ cols = {}) =>
              /\ probe.result.linesCleared = 0
              /\ probe.result.newGrid = probe.grid

\* two complete rows and a complete column that crosses them, beside a cell
\* that stays
C3_Witness ==
  /\ probe.fn = "checkLines"
  /\ CompleteRows(probe.grid) # {}
  /\ CompleteCols(probe.grid) # {}
  /\ Cardinality(CompleteRows(probe.grid)) = 2
  /\ Occupied(probe.result.newGrid) # {}

\* C4: rotate turns a matrix of R rows and C columns into the matrix of C
\* rows and R columns that is its quarter turn clockwise (the cell of row i,
\* column j goes to row j, column R + 1 - i), and four turns give the input.
C4_RotateClockwiseOfOrderFour ==
  probe.fn = "rotateMatrix" =>
    LET m == probe.matrix
        r == probe.result
    IN  /\ Rows(r) = Cols(m)
        /\ Cols(r) = Rows(m)
        /\ \A i \in 1 .. Rows(m) : \A j \in 1 .. Cols(m) :
              r[j][Rows(m) + 1 - i] = m[i][j]
        /\ probe.fourth = m

\* a matrix that is not square and differs from its half turn
C4_Witness ==
  /\ probe.fn = "rotateMatrix"
  /\ Rows(probe.matrix) # Cols(probe.matrix)
  /\ rotateTimes(probe.matrix, 2) # probe.matrix

\* some quarter turn of the matrix has all its filled cells on empty cells
\* of the board from some origin of the board
FitsRotated(g, matrix) ==
  \E n \in 0 .. 3 : \E o \in AllCells :
     LET cells == Mapped(rotateTimes(matrix, n), o[1], o[2])
     IN  cells \subseteq AllCells /\ cells \cap Occupied(g) = {}

CandidateSet(pieces, hold) ==
  { pieces[i] : i \in 1 .. Len(pieces) } \cup (IF hold = NoShape THEN {} ELSE {hold})

\* C5: for a candidate set that is not empty, isGameOver is true exactly when
\* no candidate fits in any of its four rotations at any origin; on a board
\* with one empty cell it is true when every candidate has two cells or more
\* and false when a candidate has one cell.
C5_GameOverIffNothingFits ==
  probe.fn = "checkGameOver" =>
    LET cs == CandidateSet(probe.pieces, probe.hold)
    IN  /\ probe.result <=> (\A s \in cs : ~ FitsRotated(probe.grid, s.matrix))
        /\ Cardinality(AllCells \ Occupied(probe.grid)) = 1 =>
             /\ (\A s \in cs : Cardinality(FilledCells(s.matrix)) >= 2)
                  => probe.result
             /\ (\E s \in cs : Cardinality(FilledCells(s.matrix)) = 1)
                  => ~ probe.result

\* one empty cell, a pool and a hold piece of two cells or more: game over
C5_Witness ==
  /\ probe.fn = "checkGameOver"
  /\ Cardinality(AllCells \ Occupied(probe.grid)) = 1
  /\ probe.hold # NoShape
  /\ \A s \in CandidateSet(probe.pieces, probe.hold) :
        Cardinality(FilledCells(s.matrix)) >= 2
  /\ probe.result

(***************************************************************************)
(* Properties of the session, stated for Spec                              *)
(***************************************************************************)
\* the session state apart from the pieces and the keys
restOfSession ==
  << phase, grid, selectedPieceIndex, score, highScore, combo, dragState,
     dropPreview, isHoveringHold, timers >>

\* the lines the drop of the dragged piece on the previewed cell completes
DropLines ==
  LET nextGrid == placePiece(grid, dragState.piece, dropPreview.x, dropPreview.y)
  IN  Cardinality(CompleteRows(nextGrid)) + Cardinality(CompleteCols(nextGrid))

\* C6: after every accepted placement, from the pool or from the hold slot,
\* with or without a replenished pool, the phase is gameover whenever no
\* candidate (pool and hold piece) can be placed on the grid after the clear.
\* Stated for the states where no spawnPieces callback is pending, so that
\* the deferred check of a replenished pool has run.
C6_GameOverAfterEveryPlacement ==
  ( /\ ev.op = "place"
    /\ ev.ok
    /\ timers = << >>
    /\ CandidateSet(availablePieces, holdPiece) # {}
    /\ \A s \in CandidateSet(availablePieces, holdPiece) :
          ~ FitsRotated(grid, s.matrix) )
    => phase = "gameover"

\* C7: an accepted placement that clears no line leaves the combo at 1, and
\* one that clears one line or more leaves it at the previous combo plus 1,
\* however many lines it clears.
C7_ComboTransition ==
  [][ (ev'.op = "place" /\ ev'.ok) =>
        combo' = IF DropLines = 0 THEN 1 ELSE combo + 1 ]_vars

\* two lines cleared at once by a placement that follows a clearing one
C7_Witness ==
  /\ ev.op = "place"
  /\ ev.ok
  /\ ev.lines >= 1
  /\ combo >= 3

\* C8: a rotation request, on the selected pool piece or on the hold piece,
\* made with keys < COST_ROTATE changes no session state; an accepted one
\* replaces the matrix of that piece by its quarter turn, takes COST_ROTATE
\* keys and changes nothing else.
C8_RotationAllOrNothing ==
  [][ /\ ev'.op = "rotate" =>
           /\ UNCHANGED << restOfSession, holdPiece >>
           /\ IF keys < COST_ROTATE \/ selectedPieceIndex = NO_SELECTION
              THEN UNCHANGED << availablePieces, keys >>
              ELSE /\ keys' = keys - COST_ROTATE
                   /\ Len(availablePieces') = Len(availablePieces)
                   /\ \A k \in 1 .. Len(availablePieces) :
                         availablePieces'[k] =
                           IF k = selectedPieceIndex + 1
                           THEN [matrix |-> rotateMatrix(availablePieces[k].matrix),
                                 color |-> availablePieces[k].color]
                           ELSE availablePieces[k]
      /\ ev'.op = "rotateHold" =>
           /\ UNCHANGED << restOfSession, availablePieces >>
           /\ IF keys < COST_ROTATE
              THEN UNCHANGED << holdPiece, keys >>
              ELSE /\ keys' = keys - COST_ROTATE
                   /\ holdPiece' = [matrix |-> rotateMatrix(holdPiece.matrix),
                                    color |-> holdPiece.color] ]_vars

\* a request on the selected piece refused for want of keys, after an
\* accepted one has turned a line of four upright
C8_Witness ==
  /\ ev.op = "rotate"
  /\ ~ ev.ok
  /\ selectedPieceIndex # NO_SELECTION
  /\ keys < COST_ROTATE
  /\ \E k \in 1 .. Len(availablePieces) :
        availablePieces[k].matrix = SHAPE_TEMPLATES[7]

\* C9: keys is a non-negative integer in every reachable state.
C9_KeysNeverNegative == keys \in Nat

\* a request on the hold piece refused with one key left
C9_Witness ==
  /\ ev.op = "rotateHold"
  /\ ~ ev.ok
  /\ keys = START_KEYS - COST_ROTATE

\* C10: an accepted placement that clears lines adds exactly that many keys,
\* and one that clears none leaves keys as it was.
C10_KeysEarnedPerLine ==
  [][ (ev'.op = "place" /\ ev'.ok) => keys' = keys + DropLines ]_vars

\* a placement that cleared two lines at once
C10_Witness ==
  /\ ev.op = "place"
  /\ ev.ok
  /\ ev.lines >= 2
  /\ keys >= 2
\* C11: an accepted placement adds to score exactly 10 times the filled cells
\* of the placed shape plus lineClearScore(linesCleared, combo) with the combo
\* held before the turn; startGame sets score to 0; no other step changes
\* score, and score is never negative.
C11_ScoreByTurn ==
  [][ /\ score' >= 0
      /\ IF ev'.op = "place" /\ ev'.ok
         THEN score' = score
                + 10 * Cardinality(FilledCells(dragState.piece.matrix))
                + (IF DropLines = 0 THEN 0 ELSE calculateScore(DropLines, combo))
         ELSE IF ev'.op = "start" THEN score' = 0
         ELSE score' = score ]_vars

\* a clearing placement made at combo 2, after a placement that cleared two
\* lines at combo 1
C11_Witness ==
  /\ ev.op = "place"
  /\ ev.ok
  /\ ev.lines = 1
  /\ combo = 3
  /\ score = 90 + 90 + (40 + calculateScore(2, 1)) + (40 + calculateScore(1, 2))

\* C12: highScore is at least score in every state and never decreases; it
\* changes only by taking the value of a score that exceeds it, so it is the
\* largest score reached (or the stored one, while that is larger).
C12_HighScoreIsRunningMaximum ==
  [][ /\ highScore' >= score'
      /\ highScore' >= highScore
      /\ highScore' # highScore => highScore' = score' ]_vars

\* a second game has begun: score is back at 0 and highScore keeps the score
\* of the first game, which had passed the stored one
C12_Witness ==
  /\ phase = "playing"
  /\ budget.stored = StoredHighScore
  /\ budget.tape = << >>
  /\ score = 0
  /\ highScore > StoredHighScore

\* the step places a piece dragged from the pool
PoolPlacement ==
  ev'.op = "place" /\ ev'.ok /\ dragState.sourceIndex # HOLD

\* the step moves a pool piece to the hold slot, which was empty
MoveToEmptyHold ==
  ev'.op = "hold" /\ ev'.ok /\ holdPiece = NoShape

\* q is p with one element taken out
OneRemoved(p, q) ==
  \E i \in 1 .. Len(p) :
     q = [k \in 1 .. (Len(p) - 1) |-> IF k < i THEN p[k] ELSE p[k + 1]]

\* C13: the pool holds 0 to 3 shapes in every state, and removing a piece
\* (by placement, or by moving it to an empty hold) from a pool of more than
\* one piece leaves the same pool without one of its pieces.
C13_PoolShrinksByOne ==
  [][ /\ Len(availablePieces') \in 0 .. 3
      /\ ((PoolPlacement \/ MoveToEmptyHold) /\ Len(availablePieces) > 1)
           => OneRemoved(availablePieces, availablePieces') ]_vars

\* the step draws a new batch
Replenished == budget'.tape # budget.tape

\* the pool the handler of the step works on: the pointerup listener holds the
\* pool of the render it was subscribed in, a click handler the current one
HandlerPool ==
  IF dragState.active /\ ~ dragState'.active THEN eff.availablePieces
  ELSE availablePieces

Without(p, i) ==
  [k \in 1 .. (Len(p) - 1) |-> IF k <= i THEN p[k] ELSE p[k + 1]]

\* C15: an accepted placement removes exactly the placed piece from its
\* source.  A piece dragged from pool index i leaves the pool, the other pool
\* pieces keep their order (a pool of one is replaced by a new batch) and the
\* hold slot is not touched; a piece dragged from the hold slot leaves the
\* hold slot empty and the pool as it was.
C15_PlacementRemovesThePlacedPiece ==
  [][ (ev'.op = "place" /\ ev'.ok) =>
        IF dragState.sourceIndex = HOLD
        THEN /\ holdPiece' = NoShape
             /\ availablePieces' = availablePieces
        ELSE /\ holdPiece' = holdPiece
             /\ dragState.sourceIndex < Len(availablePieces)
             /\ availablePieces[dragState.sourceIndex + 1] = dragState.piece
             /\ IF Len(availablePieces) > 1
                THEN availablePieces' =
                       Without(availablePieces, dragState.sourceIndex)
                ELSE Replenished ]_vars

\* the pool index of the piece a hold step moves: the source of the drag that
\* ends on the hold slot, or the selected piece when the slot is clicked
MovedIndex ==
  IF dragState.active /\ ~ dragState'.active THEN dragState.sourceIndex
  ELSE selectedPieceIndex

\* the shapes of pool p and hold slot h together, as a function from shape to
\* number of copies
ShapesIn(p, h) ==
  [s \in {p[k] : k \in 1 .. Len(p)} \cup ({h} \ {NoShape}) |->
     Cardinality({k \in 1 .. Len(p) : p[k] = s}) + (IF h = s THEN 1 ELSE 0)]

\* C16: moving pool piece i to the hold slot leaves grid, score, keys and
\* combo alone and keeps one shape in hold.  With the slot empty the piece
\* leaves the pool (a pool of one is replaced by a new batch) and becomes the
\* hold piece; with the slot occupied the two are swapped, the former hold
\* piece takes index i and the pool keeps its length.  Unless a new batch is
\* drawn, pool and hold together hold the same shapes as before.
C16_HoldMoveOrSwap ==
  [][ (ev'.op = "hold" /\ ev'.ok) =>
        /\ UNCHANGED << grid, score, keys, combo >>
        /\ MovedIndex \in 0 .. (Len(availablePieces) - 1)
        /\ holdPiece' = availablePieces[MovedIndex + 1]
        /\ IF holdPiece = NoShape
           THEN IF Len(availablePieces) > 1
                THEN availablePieces' = Without(availablePieces, MovedIndex)
                ELSE Replenished
           ELSE /\ Len(availablePieces') = Len(availablePieces)
                /\ availablePieces' =
                     [availablePieces EXCEPT ![MovedIndex + 1] = holdPiece]
        /\ Replenished \/ ShapesIn(availablePieces', holdPiece')
                            = ShapesIn(availablePieces, holdPiece) ]_vars

\* the pointer is released over the board at an origin where the dragged
\* piece can be placed
DropFits ==
  /\ dropPreview.set
  /\ canPlacePiece(grid, dragState.piece, dropPreview.x, dropPreview.y)

\* C17: a drop released where the dragged piece cannot be placed (outside the
\* board or over an occupied cell) is declined without error: the handler
\* ends the drag and leaves grid, pool, hold, score, keys, combo and phase as
\* they were, so the piece is still in its source to be dragged again.
C17_InvalidDropDeclined ==
  [][ (ev'.op \in {"place", "release"} /\ ~ DropFits) =>
        /\ ev'.op = "release"
        /\ ~ dragState'.active
        /\ UNCHANGED << grid, availablePieces, holdPiece, score, keys, combo,
                        phase >> ]_vars

\* C18: the transforms leave what their caller held.  After an accepted
\* placement the grid held before is cell for cell what it was: a callback
\* scheduled by the placement holds the grid of before the placement, and the
\* grids held by callbacks scheduled earlier are as they were.  After an
\* accepted rotation the shapes held before are cell for cell what they
\* were: the pool and the hold piece that the pointer listener holds from
\* the earlier render show the matrices they showed before.
C18_TransformsLeaveHeldValues ==
  [][ /\ (ev'.op = "place" /\ ev'.ok) =>
           /\ \A k \in 1 .. Len(timers) : timers'[k] = timers[k]
           /\ \A k \in (Len(timers) + 1) .. Len(timers') :
                 timers'[k].grid = grid
      /\ (ev'.op \in {"rotate", "rotateHold"} /\ ev'.ok) =>
           /\ eff'.availablePieces = eff.availablePieces
           /\ eff'.holdPiece = eff.holdPiece ]_vars

\* the hold piece the handler of the step works on
HandlerHold ==
  IF dragState.active /\ ~ dragState'.active THEN eff.holdPiece
  ELSE holdPiece

\* some shape is among the candidates
SomeCandidate(pieces, hold) == Len(pieces) > 0 \/ hold # NoShape

\* C19: checkGameOver is never called with an empty candidate set.  The two
\* calls are the callback of spawnPieces, on the batch just drawn and the
\* hold piece of the calling render, and handlePlacePiece after a pool piece
\* was placed and no new batch was asked for, on the pool it sets and the
\* hold piece of its render: each time the pool passed holds a shape or the
\* hold piece passed is present.
C19_GameOverCheckHasCandidates ==
  [][ /\ \A k \in 1 .. Len(timers') :
           SomeCandidate(timers'[k].pieces, timers'[k].hold)
      /\ (PoolPlacement /\ ~ Replenished) =>
           SomeCandidate(availablePieces', HandlerHold) ]_vars

\* handlePlacePiece has made the check on a pool of one piece with the hold
\* slot empty, while the callback of the first batch is still pending
C19_Witness ==
  /\ ev.op = "place"
  /\ ev.ok
  /\ Len(availablePieces) = 1
  /\ holdPiece = NoShape
  /\ Len(timers) = 1
  /\ Len(timers[1].pieces) = 3

\* C20: starting a game, from the start screen or after a game over, gives
\* the empty grid, score 0, combo 1, an empty hold slot, a pool of 3 newly
\* drawn shapes and phase playing; and the phase stays playing until the
\* first placement, that is, as long as the score of the game is still 0.
C20_StartGivesAPlayableGame ==
  [][ /\ ev'.op = "start" =>
           /\ grid' = createEmptyGrid
           /\ score' = 0
           /\ combo' = 1
           /\ holdPiece' = NoShape
           /\ Replenished
           /\ Len(availablePieces') = 3
           /\ phase' = "playing"
      /\ (phase' # "start" /\ score' = 0) => phase' = "playing" ]_vars

\* some candidate of pool and hold piece fits on grid g in some rotation
LegalMoveRemains(g, pieces, hold) ==
  \E s \in CandidateSet(pieces, hold) : FitsRotated(g, s.matrix)

\* C21: the phase goes from playing to gameover only into a state in which no
\* candidate of the pool and the hold piece of that state, in any rotation, can
\* be placed anywhere on the grid of that state: the game never ends while a
\* legal move remains.
C21_GameOverOnlyWhenStuck ==
  [][ (phase = "playing" /\ phase' = "gameover") =>
        ~ LegalMoveRemains(grid', availablePieces', holdPiece') ]_vars

\* C22: grid, score, keys and combo change only while the phase is playing.
\* Outside a game, and in particular once the phase is gameover, every step
\* but the start of a new game leaves them as they are, the release of a drag
\* begun before the game ended included.
C22_FrozenOutsidePlay ==
  [][ (phase # "playing" /\ ev'.op # "start") =>
        UNCHANGED << grid, score, keys, combo >> ]_vars

\* C23: every call of placePiece was validated: at each step in which
\* handlePlacePiece calls placePiece(grid, piece, x, y), whether the call
\* writes the cells or signals an error, canPlacePiece holds for the grid of
\* that moment, the matrix of the dragged piece and the origin passed.
C23_PlacementsAreValidated ==
  [][ ev'.op = "place" =>
        canPlacePiece(grid, dragState.piece, dropPreview.x, dropPreview.y) ]_vars

SourceShape ==
  IF dragState.sourceIndex = HOLD THEN holdPiece
  ELSE IF dragState.sourceIndex < Len(availablePieces)
  THEN availablePieces[dragState.sourceIndex + 1]
  ELSE NoShape

\* C25: the shape written to the grid by an accepted drop is the shape the
\* source of the drag holds at the moment of the drop, so that a rotation of
\* the source piece made since the drag began, and paid for in keys, shows in
\* the placed cells.
C25_DropPlacesTheSourceShape ==
  [][ (ev'.op = "place" /\ ev'.ok) =>
        /\ dragState.piece = SourceShape
        /\ grid' = checkLines(placePiece(grid, SourceShape, dropPreview.x,
                                         dropPreview.y)).newGrid ]_vars

====
